---- MODULE Spec2Model ----
(***************************************************************************)
(* Model of setup_remote.py: main() drives a fixed list of remote commands *)
(* through run_command() over one SSH session.  Bytes and characters are   *)
(* natural numbers (byte values, code points).                             *)
(***************************************************************************)
EXTENDS Integers, Sequences, FiniteSets, TLC

(* ---------------------------- bounds ----------------------------------- *)
MaxArgv   == 6      \* largest len(sys.argv) explored
MaxStatus == 1      \* exit statuses explored are 0..MaxStatus
MaxEdge   == 1      \* bytes before and after the numbered lines of an output
MaxExtra  == 1      \* numbered lines beyond the display limit

(* ------------------------ program constants ---------------------------- *)
MinArgv     == 5    \* len(sys.argv) < 5 takes the usage path
Limit       == 50   \* lines kept for display
AsciiLimit  == 128  \* ord(c) < 128 is kept by the filter
Replacement == 65533 \* U+FFFD, produced by errors='replace'
NoTrunc     == -1   \* no truncation message was printed
NoExit      == -1   \* the process has not terminated

NL  == 10
CR  == 13
TAB == 9

Commands ==
  << "apt update && DEBIAN_FRONTEND=noninteractive apt upgrade -y 2>&1 | tail -20",
     "curl -fsSL https://deb.nodesource.com/setup_20.x | bash - 2>&1 | tail -5",
     "apt install -y nodejs 2>&1 | tail -5",
     "apt install -y build-essential python3 2>&1 | tail -5",
     "apt install -y git 2>&1 | tail -3",
     "npm install -g pm2 2>&1 | tail -5",
     "npm install -g @anthropic-ai/claude-code 2>&1 | tail -5",
     "apt install -y nginx 2>&1 | tail -5",
     "mkdir -p /opt/claude-dev-hub/projects /opt/claude-dev-hub/data",
     "rm -rf /opt/claude-dev-hub/app && git clone {GITHUB_REPO} /opt/claude-dev-hub/app 2>&1",
     "cd /opt/claude-dev-hub/app && npm install 2>&1 | tail -10",
     "cd /opt/claude-dev-hub/app && npm run build 2>&1 | tail -10",
     "cp /opt/claude-dev-hub/app/nginx.conf /etc/nginx/sites-available/claude-dev-hub",
     "ln -sf /etc/nginx/sites-available/claude-dev-hub /etc/nginx/sites-enabled/",
     "rm -f /etc/nginx/sites-enabled/default",
     "nginx -t && systemctl restart nginx",
     "cd /opt/claude-dev-hub/app && pm2 delete claude-dev-hub 2>/dev/null; pm2 start ecosystem.config.js 2>&1 | tail -5",
     "pm2 save",
     "curl -s http://localhost:3001/api/health" >>

NumCommands == Len(Commands)

HealthCheck == "curl -s http://localhost:3001/api/health"

(* ------------------- bytes.decode('utf-8', errors='replace') ------------ *)
\* number of continuation bytes a lead byte announces; 0 for an invalid lead
Need(b) ==
  IF b \in 194..223 THEN 1
  ELSE IF b \in 224..239 THEN 2
  ELSE IF b \in 240..244 THEN 3
  ELSE 0

\* the values the k-th continuation byte after lead b may take
ContRange(b, k) ==
  IF k > 1 THEN 128..191
  ELSE IF b = 224 THEN 160..191
  ELSE IF b = 237 THEN 128..159
  ELSE IF b = 240 THEN 144..191
  ELSE IF b = 244 THEN 128..143
  ELSE 128..191

\* how many of the announced continuation bytes are present and valid
GoodCont(bs, i) ==
  LET b == bs[i]
      ok(k) == i + k <= Len(bs) /\ bs[i + k] \in ContRange(b, k)
      bad == {k \in 1..Need(b) : ~ok(k)}
  IN  IF bad = {} THEN Need(b)
      ELSE (CHOOSE k \in bad : \A j \in bad : k <= j) - 1

CodePoint(bs, i) ==
  LET b == bs[i]
      c(k) == bs[i + k] - 128
  IN  IF Need(b) = 1 THEN (b - 192) * 64 + c(1)
      ELSE IF Need(b) = 2 THEN (b - 224) * 4096 + c(1) * 64 + c(2)
      ELSE (b - 240) * 262144 + c(1) * 4096 + c(2) * 64 + c(3)

\* byte i is consumed as a continuation byte of a lead byte before it
Consumed(bs, i) ==
  \E k \in 1..3 : i - k >= 1 /\ Need(bs[i - k]) >= k /\ GoodCont(bs, i - k) >= k

\* the character decoded from the unit that starts at byte i
CharAt(bs, i) ==
  IF bs[i] < 128 THEN bs[i]
  ELSE IF Need(bs[i]) = 0 THEN Replacement
  ELSE IF GoodCont(bs, i) = Need(bs[i]) THEN CodePoint(bs, i)
  ELSE Replacement

Decode(bs) ==
  LET IsStart(i) == ~Consumed(bs, i)
      starts == SelectSeq([i \in 1..Len(bs) |-> i], IsStart)
  IN  [k \in 1..Len(starts) |-> CharAt(bs, starts[k])]

(* ----------------------------- text helpers ---------------------------- *)
\* the characters str.strip() removes
Whitespace ==
  {9, 10, 11, 12, 13, 28, 29, 30, 31, 32, 133, 160, 5760}
    \cup (8192..8202) \cup {8232, 8233, 8239, 8287, 12288}

Strip(s) ==
  LET keep == {i \in 1..Len(s) : s[i] \notin Whitespace}
  IN  IF keep = {} THEN << >>
      ELSE LET lo == CHOOSE i \in keep : \A j \in keep : i <= j
               hi == CHOOSE i \in keep : \A j \in keep : j <= i
           IN  SubSeq(s, lo, hi)

\* s.split('\n')
Split(s) ==
  LET IsNL(i) == s[i] = NL
      nls == SelectSeq([i \in 1..Len(s) |-> i], IsNL)
      n == Len(nls)
  IN  [k \in 1..(n + 1) |->
         SubSeq(s, IF k = 1 THEN 1 ELSE nls[k - 1] + 1,
                   IF k = n + 1 THEN Len(s) ELSE nls[k] - 1)]

\* '\n'.join(ls)
RECURSIVE Join(_)
Join(ls) ==
  IF Len(ls) = 0 THEN << >>
  ELSE IF Len(ls) = 1 THEN ls[1]
  ELSE LET h == Len(ls) \div 2
       IN  Join(SubSeq(ls, 1, h)) \o << NL >> \o Join(SubSeq(ls, h + 1, Len(ls)))

KeepsControlOnly(c) == c \in {NL, CR, TAB}

\* the test of the generator expression on line 19
Keeps(c) == c < AsciiLimit \/ c \in {NL, CR, TAB}

CleanOutput(text) == SelectSeq(text, Keeps)

FirstLines(ls) == SubSeq(ls, 1, Limit)

\* lines[-50:]
LastLines(ls) == SubSeq(ls, Len(ls) - Limit + 1, Len(ls))

\* what lines 18-25 print for standard output bytes out:
\* trunc is the count of the truncation message (NoTrunc when none is
\* printed), text the characters printed by line 25 (empty when none)
Display(out) ==
  LET clean == Strip(CleanOutput(Decode(out)))
  IN  IF clean = << >> THEN [trunc |-> NoTrunc, text |-> << >>]
      ELSE LET lines == Split(clean)
           IN  IF Len(lines) > Limit
               THEN [trunc |-> Len(lines) - Limit, text |-> Join(LastLines(lines))]
               ELSE [trunc |-> NoTrunc, text |-> Join(lines)]

\* what lines 31-33 print for standard error bytes err
ErrorDisplay(err) ==
  IF Strip(Decode(err)) # << >> THEN Decode(err) ELSE << >>

(* ------------------------------ inputs --------------------------------- *)
RECURSIVE Strings(_, _)
Strings(alphabet, n) ==
  IF n = 0 THEN {<< >>}
  ELSE LET shorter == Strings(alphabet, n - 1)
       IN  shorter \cup {Append(s, b) : s \in shorter, b \in alphabet}

\* newline, space, a letter, ESC, and the two bytes of U+00E9
EdgeBytes == {10, 32, 97, 27, 195, 169}

\* n numbered lines, each one distinct printable character and a newline
Body(n) == [k \in 1..(2 * n) |-> IF k % 2 = 1 THEN 33 + (k + 1) \div 2 ELSE NL]

LineCounts == {0} \cup ((Limit - 1)..(Limit + MaxExtra))

Outputs ==
  {pre \o Body(n) \o suf :
     pre \in Strings(EdgeBytes, MaxEdge), n \in LineCounts,
     suf \in Strings(EdgeBytes, MaxEdge)}

\* the outputs drawn while the whole sequence is explored
SeqOutputs == {<< >>, << 27, 97 >>, Body(Limit + 1)}

ErrOutputs == {<< >>, << 32 >>, << 69, 195, 169, 10 >>}

Statuses == 0..MaxStatus

Kinds == {"timeout", "error"}

(* ------------------------------- state --------------------------------- *)
VARIABLES
  argvLen,       \* len(sys.argv)
  pc,            \* position in main / run_command
  usage,         \* the usage text was printed
  created,       \* paramiko.SSHClient() was constructed
  connectTried,  \* ssh.connect was called
  connectFailed, \* ssh.connect raised
  closed,        \* number of calls of ssh.close()
  cmd,           \* index of the command being run (0 before the first)
  dispatched,    \* commands handed to ssh.exec_command, in order
  exit_status,   \* run_command's exit_status
  returned,      \* value of the last run_command call
  nonzeroSeen,   \* some command returned a non-zero exit status
  output,        \* bytes read from stdout by the current call
  truncated,     \* count of the truncation message of the current call
  shown,         \* text printed by line 25 in the current call
  readRaised,    \* lines 18-25 raised in the current call
  encDiag,       \* line 27 printed its diagnostic in the current call
  stderrRead,    \* line 31 was reached in the current call
  errShown,      \* text printed by line 33 in the current call
  outFailSeen,   \* the stdout handling of some call raised
  execRaised,    \* lines 14-15 raised in some call
  timedOutAt,    \* index of the first command in which a timeout elapsed, else 0
  topDiag,       \* line 110 printed its diagnostic
  banner,        \* lines 103-107 printed SETUP COMPLETE
  exc,           \* exception in flight at the finally block
  exitCode       \* process exit status, NoExit while running

mainVars == << usage, created, connectTried, connectFailed, closed, topDiag,
               banner, exc, exitCode >>

callVars == << cmd, dispatched, exit_status, returned, nonzeroSeen >>

localVars == << output, truncated, shown, readRaised, encDiag, stderrRead,
                errShown >>

histVars == << outFailSeen, execRaised, timedOutAt >>

vars == << argvLen, pc, mainVars, callVars, localVars, histVars >>

ClearLocals ==
  /\ output' = << >>
  /\ truncated' = NoTrunc
  /\ shown' = << >>
  /\ readRaised' = FALSE
  /\ encDiag' = FALSE
  /\ stderrRead' = FALSE
  /\ errShown' = << >>

Init ==
  /\ argvLen \in 1..MaxArgv
  /\ pc = "start"
  /\ usage = FALSE
  /\ created = FALSE
  /\ connectTried = FALSE
  /\ connectFailed = FALSE
  /\ closed = 0
  /\ cmd = 0
  /\ dispatched = << >>
  /\ exit_status = 0
  /\ returned = 0
  /\ nonzeroSeen = FALSE
  /\ output = << >>
  /\ truncated = NoTrunc
  /\ shown = << >>
  /\ readRaised = FALSE
  /\ encDiag = FALSE
  /\ stderrRead = FALSE
  /\ errShown = << >>
  /\ outFailSeen = FALSE
  /\ execRaised = FALSE
  /\ timedOutAt = 0
  /\ topDiag = FALSE
  /\ banner = FALSE
  /\ exc = "none"
  /\ exitCode = NoExit

\* a library call of command cmd raises an exception of the given kind
NoteTimeout(kind) ==
  timedOutAt' = IF kind = "timeout" /\ timedOutAt = 0 THEN cmd ELSE timedOutAt

(* ------------------------------ main ----------------------------------- *)
TooFewArgsOffByOne == argvLen < MinArgv - 1

\* line 40
TooFewArgs == argvLen < MinArgv

\* lines 40-43
Usage ==
  /\ pc = "start"
  /\ TooFewArgs
  /\ usage' = TRUE
  /\ exitCode' = 1
  /\ pc' = "done"
  /\ UNCHANGED << argvLen, created, connectTried, connectFailed, closed,
                  topDiag, banner, exc, callVars, localVars, histVars >>

\* lines 40, 45-53
ParseArgs ==
  /\ pc = "start"
  /\ ~TooFewArgs
  /\ pc' = "create"
  /\ UNCHANGED << argvLen, mainVars, callVars, localVars, histVars >>

\* lines 55-56
CreateSession ==
  /\ pc = "create"
  /\ created' = TRUE
  /\ pc' = "connect"
  /\ UNCHANGED << argvLen, usage, connectTried, connectFailed, closed,
                  topDiag, banner, exc, exitCode, callVars, localVars,
                  histVars >>

\* lines 59-60, connect returns
ConnectOk ==
  /\ pc = "connect"
  /\ connectTried' = TRUE
  /\ cmd' = 1
  /\ pc' = "call"
  /\ UNCHANGED << argvLen, usage, created, connectFailed, closed, topDiag,
                  banner, exc, exitCode, dispatched, exit_status, returned,
                  nonzeroSeen, localVars, histVars >>

ConnectFailIgnored ==
  /\ pc = "connect"
  /\ connectTried' = TRUE
  /\ connectFailed' = TRUE
  /\ cmd' = 1
  /\ pc' = "call"
  /\ UNCHANGED << argvLen, usage, created, closed, topDiag, banner, exc,
                  exitCode, dispatched, exit_status, returned, nonzeroSeen,
                  localVars, histVars >>

\* line 59, connect raises
ConnectFail ==
  /\ pc = "connect"
  /\ connectTried' = TRUE
  /\ connectFailed' = TRUE
  /\ pc' = "except"
  /\ UNCHANGED << argvLen, usage, created, closed, topDiag, banner, exc,
                  exitCode, callVars, localVars, histVars >>

(* --------------------------- run_command ------------------------------- *)
\* lines 13-15, exec_command and recv_exit_status return
RcExecOk ==
  /\ pc = "call"
  /\ \E st \in Statuses : exit_status' = st
  /\ dispatched' = Append(dispatched, Commands[cmd])
  /\ pc' = "rc_read"
  /\ UNCHANGED << argvLen, mainVars, cmd, returned, nonzeroSeen, localVars,
                  histVars >>

\* lines 13-15, exec_command or recv_exit_status raises: nothing in
\* run_command catches it, it reaches the except clause of main
RcExecRaise ==
  /\ pc = "call"
  /\ \E kind \in Kinds : NoteTimeout(kind)
  /\ execRaised' = TRUE
  /\ dispatched' = Append(dispatched, Commands[cmd])
  /\ pc' = "except"
  /\ UNCHANGED << argvLen, mainVars, cmd, exit_status, returned, nonzeroSeen,
                  localVars, outFailSeen >>

\* line 29
AfterOutput == IF exit_status # 0 THEN "rc_err" ELSE "rc_ret"

\* lines 17-25, stdout.read() returns out
RcRead(outs) ==
  /\ pc = "rc_read"
  /\ \E out \in outs :
        /\ output' = out
        /\ truncated' = Display(out).trunc
        /\ shown' = Display(out).text
  /\ pc' = AfterOutput
  /\ UNCHANGED << argvLen, mainVars, callVars, readRaised, encDiag,
                  stderrRead, errShown, histVars >>

RcReadRaisePropagates ==
  /\ pc = "rc_read"
  /\ \E kind \in Kinds : NoteTimeout(kind)
  /\ readRaised' = TRUE
  /\ outFailSeen' = TRUE
  /\ pc' = "except"
  /\ UNCHANGED << argvLen, mainVars, callVars, output, truncated, shown,
                  encDiag, stderrRead, errShown, execRaised >>

\* lines 17-18, 26-27, stdout.read() raises
RcReadRaise ==
  /\ pc = "rc_read"
  /\ \E kind \in Kinds : NoteTimeout(kind)
  /\ readRaised' = TRUE
  /\ encDiag' = TRUE
  /\ outFailSeen' = TRUE
  /\ pc' = AfterOutput
  /\ UNCHANGED << argvLen, mainVars, callVars, output, truncated, shown,
                  stderrRead, errShown, execRaised >>

\* lines 29-33, stderr.read() returns err
RcStderr ==
  /\ pc = "rc_err"
  /\ stderrRead' = TRUE
  /\ \E err \in ErrOutputs : errShown' = ErrorDisplay(err)
  /\ pc' = "rc_ret"
  /\ UNCHANGED << argvLen, mainVars, callVars, output, truncated, shown,
                  readRaised, encDiag, histVars >>

\* lines 29-31, 34-35, stderr.read() or the print raises
RcStderrRaise ==
  /\ pc = "rc_err"
  /\ stderrRead' = TRUE
  /\ \E kind \in Kinds : NoteTimeout(kind)
  /\ pc' = "rc_ret"
  /\ UNCHANGED << argvLen, mainVars, callVars, output, truncated, shown,
                  readRaised, encDiag, errShown, outFailSeen, execRaised >>

RcReturnFailFast ==
  /\ pc = "rc_ret"
  /\ returned' = exit_status
  /\ nonzeroSeen' = (nonzeroSeen \/ exit_status # 0)
  /\ ClearLocals
  /\ cmd' = IF exit_status = 0 /\ cmd < NumCommands THEN cmd + 1 ELSE cmd
  /\ pc' = IF exit_status # 0 THEN "except"
           ELSE IF cmd < NumCommands THEN "call" ELSE "complete"
  /\ UNCHANGED << argvLen, mainVars, dispatched, exit_status, histVars >>

\* line 37 and the next statement of main (lines 62-101)
RcReturn ==
  /\ pc = "rc_ret"
  /\ returned' = exit_status
  /\ nonzeroSeen' = (nonzeroSeen \/ exit_status # 0)
  /\ ClearLocals
  /\ IF cmd < NumCommands
     THEN cmd' = cmd + 1 /\ pc' = "call"
     ELSE cmd' = cmd /\ pc' = "complete"
  /\ UNCHANGED << argvLen, mainVars, dispatched, exit_status, histVars >>

(* ------------------------- end of main --------------------------------- *)
\* lines 103-107
Complete ==
  /\ pc = "complete"
  /\ banner' = TRUE
  /\ pc' = "finally"
  /\ UNCHANGED << argvLen, usage, created, connectTried, connectFailed, closed,
                  topDiag, exc, exitCode, callVars, localVars, histVars >>

ExceptSkipsClose ==
  /\ pc = "except"
  /\ topDiag' = TRUE
  /\ exc' = "SystemExit"
  /\ exitCode' = 1
  /\ pc' = "done"
  /\ UNCHANGED << argvLen, usage, created, connectTried, connectFailed, closed,
                  banner, callVars, localVars, histVars >>

\* lines 109-111
Except ==
  /\ pc = "except"
  /\ topDiag' = TRUE
  /\ exc' = "SystemExit"
  /\ pc' = "finally"
  /\ UNCHANGED << argvLen, usage, created, connectTried, connectFailed, closed,
                  banner, exitCode, callVars, localVars, histVars >>

FinallyFailsOnStepError ==
  /\ pc = "finally"
  /\ closed' = closed + 1
  /\ exitCode' = IF exc = "SystemExit" \/ nonzeroSeen THEN 1 ELSE 0
  /\ pc' = "done"
  /\ UNCHANGED << argvLen, usage, created, connectTried, connectFailed,
                  topDiag, banner, exc, callVars, localVars, histVars >>

\* lines 112-113, then the interpreter exits
Finally ==
  /\ pc = "finally"
  /\ closed' = closed + 1
  /\ exitCode' = IF exc = "SystemExit" THEN 1 ELSE 0
  /\ pc' = "done"
  /\ UNCHANGED << argvLen, usage, created, connectTried, connectFailed,
                  topDiag, banner, exc, callVars, localVars, histVars >>

Next ==
  \/ Usage
  \/ ParseArgs
  \/ CreateSession
  \/ ConnectOk
  \/ ConnectFail
  \/ RcExecOk
  \/ RcExecRaise
  \/ RcRead(SeqOutputs)
  \/ RcReadRaise
  \/ RcStderr
  \/ RcStderrRaise
  \/ RcReturn
  \/ Complete
  \/ Except
  \/ Finally

Spec == Init /\ [][Next]_vars

(* ------------- one run_command call, over every output ----------------- *)
\* main is about to issue its last command; every earlier one returned 0
InitRun ==
  /\ argvLen = MinArgv
  /\ pc = "call"
  /\ usage = FALSE
  /\ created = TRUE
  /\ connectTried = TRUE
  /\ connectFailed = FALSE
  /\ closed = 0
  /\ cmd = NumCommands
  /\ dispatched = SubSeq(Commands, 1, NumCommands - 1)
  /\ exit_status = 0
  /\ returned = 0
  /\ nonzeroSeen = FALSE
  /\ output = << >>
  /\ truncated = NoTrunc
  /\ shown = << >>
  /\ readRaised = FALSE
  /\ encDiag = FALSE
  /\ stderrRead = FALSE
  /\ errShown = << >>
  /\ outFailSeen = FALSE
  /\ execRaised = FALSE
  /\ timedOutAt = 0
  /\ topDiag = FALSE
  /\ banner = FALSE
  /\ exc = "none"
  /\ exitCode = NoExit

NextRun ==
  \/ RcExecOk
  \/ RcExecRaise
  \/ RcRead(Outputs)
  \/ RcReadRaise
  \/ RcStderr
  \/ RcStderrRaise
  \/ RcReturn
  \/ Complete
  \/ Except
  \/ Finally

SpecRun == InitRun /\ [][NextRun]_vars

(* ------------------------------ properties ----------------------------- *)
\* main got past the argument check: four or more command-line arguments
PastArgs == argvLen - 1 >= 4

\* the current call has read and printed standard output without raising
Printed == pc \in {"rc_err", "rc_ret"} /\ ~readRaised

\* C1: in every terminal state reached past argument checking the session
\* handle was created and close has been called on it, whether the sequence
\* completed, connect raised, or a command raised.
SessionClosedOnEveryExit ==
  (pc = "done" /\ PastArgs) => (created /\ closed >= 1)

\* C1 witness: the process ended after exec_command raised in a command, and
\* the session is closed
ClosedAfterCommandException ==
  pc = "done" /\ execRaised /\ exc = "SystemExit" /\ closed = 1

\* C2: the commands are dispatched in the fixed order; unless connect or a
\* library call of a command raises, the run dispatches all of them, whatever
\* their exit statuses, with exactly one health check, as the last command.
FixedOrderOneHealthCheck ==
  /\ Len(dispatched) <= NumCommands
  /\ dispatched = SubSeq(Commands, 1, Len(dispatched))
  /\ (pc = "call" => Len(dispatched) = cmd - 1)
  /\ (pc = "done" /\ PastArgs /\ ~connectFailed /\ ~execRaised) =>
        /\ dispatched = Commands
        /\ Cardinality({i \in DOMAIN dispatched : dispatched[i] = HealthCheck}) = 1
        /\ dispatched[Len(dispatched)] = HealthCheck

\* C2 witness: a full run in which the last command, and so some command,
\* had a non-zero exit status
FullRunWithFailedSteps ==
  pc = "done" /\ banner /\ nonzeroSeen /\ returned # 0 /\ dispatched = Commands

\* C3: when connect raises, no command is dispatched through run_command and
\* the process exits with status 1.
ConnectFailureAborts ==
  connectFailed =>
    /\ dispatched = << >>
    /\ cmd = 0
    /\ pc \in {"except", "finally", "done"}
    /\ (pc = "done" => exitCode = 1)

\* C3 witness: the process ended after a failed connect
ExitedAfterConnectFailure ==
  pc = "done" /\ connectFailed /\ exitCode = 1 /\ topDiag

\* C4: with fewer than 4 arguments the process prints the usage text and
\* exits with status 1 and never creates a session or attempts a connection;
\* with 4 or more arguments the usage path is never taken.
UsageBeforeAnySession ==
  /\ ~PastArgs =>
        /\ ~created
        /\ ~connectTried
        /\ pc \in {"start", "done"}
        /\ (pc = "done" => usage /\ exitCode = 1)
  /\ PastArgs => ~usage

\* C4 witness: exactly three arguments, the usage path was taken
UsageWithThreeArgs ==
  pc = "done" /\ argvLen - 1 = 3 /\ usage /\ exitCode = 1

\* C5: at termination the exit code is 1 with fewer than four arguments, 1
\* when connect raised, and 0 when the sequence ran to its end, whatever the
\* exit statuses of the steps.
ExitCodes ==
  pc = "done" =>
    /\ exitCode # NoExit
    /\ (~PastArgs => exitCode = 1)
    /\ (connectFailed => exitCode = 1)
    /\ (banner => exitCode = 0)

\* C5 witness: the sequence completed with a failed step and exit code 0
ExitZeroDespiteFailedStep ==
  pc = "done" /\ banner /\ nonzeroSeen /\ exitCode = 0

\* C6: once a command's timeout has elapsed, no later command is dispatched
\* and the process terminates with a non-zero status and the diagnostic of
\* the top-level handler.
TimeoutAbortsSequence ==
  timedOutAt # 0 =>
    /\ Len(dispatched) <= timedOutAt
    /\ (pc = "done" => exitCode # 0 /\ topDiag)

\* the lines of a text: its newline-separated pieces, a final newline not
\* opening a further line
TextLines(text) ==
  IF text = << >> THEN << >>
  ELSE IF text[Len(text)] = NL THEN SubSeq(Split(text), 1, Len(Split(text)) - 1)
  ELSE Split(text)

\* the lines of the filtered output after leading and trailing whitespace is
\* stripped
StrippedLines(out) ==
  LET clean == Strip(CleanOutput(Decode(out)))
  IN  IF clean = << >> THEN << >> ELSE Split(clean)

\* C7 as stated: with more than 50 lines of (filtered) output exactly the
\* last 50 are displayed after a truncation count of (lines - 50); with 50 or
\* fewer no truncation message is printed and every line is displayed.
TruncationOfOutputLines ==
  Printed =>
    LET all == TextLines(CleanOutput(Decode(output)))
        n == Len(all)
    IN  /\ n > Limit =>
              /\ truncated = n - Limit
              /\ TextLines(shown) = SubSeq(all, n - Limit + 1, n)
        /\ n <= Limit =>
              /\ truncated = NoTrunc
              /\ TextLines(shown) = all

\* C7 amended: the lines are those of the filtered output after leading and
\* trailing whitespace is stripped; with more than 50 of them exactly the
\* last 50 are displayed after a truncation count of (lines - 50), with 50 or
\* fewer no truncation message is printed and each of them is displayed.
TruncationOfStrippedLines ==
  Printed =>
    LET all == StrippedLines(output)
        n == Len(all)
        got == TextLines(shown)
    IN  /\ n > Limit =>
              /\ truncated = n - Limit
              /\ Len(got) = Limit
              /\ \A j \in 1..Limit : got[j] = all[n - Limit + j]
        /\ n <= Limit =>
              /\ truncated = NoTrunc
              /\ Len(got) = n
              /\ \A j \in 1..n : got[j] = all[j]

\* C7 witness: an output that starts with a blank line was truncated
TruncatedAfterLeadingBlankLine ==
  Printed /\ output # << >> /\ output[1] = NL /\ truncated >= 1

\* every byte is in the printable ASCII range
AllPrintable(out) == \A i \in DOMAIN out : out[i] \in 32..126

\* C8 as stated: for output of printable ASCII bytes only, the text displayed
\* is the captured output unchanged.
PrintableOutputUnchanged ==
  (Printed /\ AllPrintable(output)) => shown = output

\* C8 amended: for output of printable ASCII bytes only, filtering changes
\* nothing, no truncation message is printed, and the text displayed is the
\* captured output without its leading and trailing spaces.
PrintableOutputOnlyStripped ==
  (Printed /\ AllPrintable(output)) =>
    LET inner == {i \in DOMAIN output : output[i] # 32}
    IN  /\ CleanOutput(Decode(output)) = output
        /\ truncated = NoTrunc
        /\ Len(shown) = Cardinality({i \in DOMAIN output :
                           \E a \in inner, b \in inner : a <= i /\ i <= b})
        /\ \A j \in DOMAIN shown :
              \E a \in inner : (\A b \in inner : a <= b) /\ shown[j] = output[a + j - 1]

\* C8 witness: printable output with a space at an end was displayed stripped
PrintableOutputStripped ==
  Printed /\ AllPrintable(output) /\ shown # << >> /\ shown # output

\* C9: the text displayed for standard output contains only printable ASCII
\* characters, newline, carriage return and tab.
DisplayedOnlyPrintable ==
  Printed => \A i \in DOMAIN shown : shown[i] \in (32..126) \cup {NL, CR, TAB}

\* C10: a failure in the handling of standard output is swallowed with the
\* diagnostic of line 27: it never reaches main's handler, the standard-error
\* branch is still taken when the exit status is non-zero, run_command still
\* returns the exit status it received, and the sequence goes on to its end.
OutputFailureNonFatal ==
  /\ (readRaised /\ pc \in {"rc_err", "rc_ret"}) => encDiag
  /\ (readRaised /\ exit_status # 0) => (pc = "rc_err" \/ (pc = "rc_ret" /\ stderrRead))
  /\ (outFailSeen /\ ~execRaised) => (exc = "none" /\ pc # "except" /\ ~topDiag)
  /\ (pc = "complete" \/ (pc = "call" /\ cmd > 1)) => returned = exit_status
  /\ (outFailSeen /\ ~execRaised /\ pc = "done") =>
        (dispatched = Commands /\ banner /\ exitCode = 0)

\* C10 witness: reading standard output raised in a command that is not the
\* last, its exit status is non-zero and its standard error was printed
OutputFailureThenStderr ==
  /\ pc = "rc_ret" /\ readRaised /\ encDiag /\ exit_status # 0
  /\ errShown # << >> /\ cmd < NumCommands

====
